---- MODULE Spec2Model ----
(***************************************************************************)
(* Model of resources/interception/interception-type.cpp: the scan-code    *)
(* encoder char_to_scancode, the emitter type_text / send_key and the      *)
(* orchestration in main.  Characters are the values of a (signed) C char; *)
(* scan codes are written in decimal with the source's hex in comments.    *)
(* Sleep() calls change no program state and are not modelled.             *)
(***************************************************************************)
EXTENDS Integers, Sequences, FiniteSets, TLC

\* Longest argv[1] built from Alphabet.
MaxLen == 3

\* Left shift scan code, 0x2A.
LSHIFT == 42

\* Values of a non-NUL char (a C string never holds NUL before its end).
Char == (-128 .. 127) \ {0}

\* Characters the multi-character texts are built from:
\* 'A', 'b', 'm', '1', '!' and the byte 0xF0 (first byte of a UTF-8 emoji).
Alphabet == {65, 98, 109, 49, 33, -16}

RECURSIVE SeqsUpTo(_, _)
SeqsUpTo(S, n) ==
  IF n = 0 THEN {<<>>}
  ELSE LET shorter == SeqsUpTo(S, n - 1)
       IN shorter \cup {Append(s, x) : s \in {t \in shorter : Len(t) = n - 1}, x \in S}

\* The argv[1] values explored: every text over Alphabet up to MaxLen and
\* every one-character text.
Texts == SeqsUpTo(Alphabet, MaxLen) \cup {<<c>> : c \in Char}

VARIABLES
  pc,          \* position in main / type_text
  argc,        \* main's argc
  text,        \* argv[1]
  context,     \* "none" | "null" | "open" | "destroyed"
  keyboard,    \* "none" | "invalid" | "valid"
  i,           \* type_text loop index (1-based)
  scancode,    \* type_text local
  need_shift,  \* type_text local
  sent,        \* strokes handed to interception_send, in order
  failedAt,    \* index in sent of the first send that returned 0 (0: none)
  warned,      \* characters printed in "Warning: Unknown character"
  typed,       \* characters printed in "Typed: %c"
  reported,    \* the number printed in "Done! Typed %d characters" (-1: not printed)
  exitCode     \* main's return value (-1: still running)

vars == <<pc, argc, text, context, keyboard, i, scancode, need_shift, sent,
          failedAt, warned, typed, reported, exitCode>>

----------------------------------------------------------------------------
\* char_to_scancode and its branches

Enc(code, shift) == [code |-> code, shift |-> shift]

\* if (c >= 'a' && c <= 'z') return 0x1E + (c - 'a');
LowerLetter(c) == Enc(30 + (c - 97), FALSE)

\* UpperLetter without the need_shift = true assignment.
UpperLetter_NoShift(c) == Enc(30 + (c - 65), FALSE)

\* if (c >= 'A' && c <= 'Z') { need_shift = true; return 0x1E + (c - 'A'); }
UpperLetter(c) == Enc(30 + (c - 65), TRUE)

\* Digit with the run based at '0' instead of '1'.
Digit_OffByOne(c) == IF c = 48 THEN Enc(11, FALSE) ELSE Enc(2 + (c - 48), FALSE)

\* Digit with 0x0A in place of 0x0B for '0'.
Digit_ZeroTypo(c) == IF c = 48 THEN Enc(10, FALSE) ELSE Enc(2 + (c - 49), FALSE)

\* if (c == '0') return 0x0B; return 0x02 + (c - '1');
Digit(c) == IF c = 48 THEN Enc(11, FALSE) ELSE Enc(2 + (c - 49), FALSE)

\* switch (c) { ... default: return 0x00; }
SpecialChar(c) ==
  CASE c = 32  -> Enc(57, FALSE)   \* ' '  0x39
    [] c = 10  -> Enc(28, FALSE)   \* '\n' 0x1C
    [] c = 9   -> Enc(15, FALSE)   \* '\t' 0x0F
    [] c = 45  -> Enc(12, FALSE)   \* '-'  0x0C
    [] c = 61  -> Enc(13, FALSE)   \* '='  0x0D
    [] c = 91  -> Enc(26, FALSE)   \* '['  0x1A
    [] c = 93  -> Enc(27, FALSE)   \* ']'  0x1B
    [] c = 92  -> Enc(43, FALSE)   \* '\\' 0x2B
    [] c = 59  -> Enc(39, FALSE)   \* ';'  0x27
    [] c = 39  -> Enc(40, FALSE)   \* '\'' 0x28
    [] c = 96  -> Enc(41, FALSE)   \* '`'  0x29
    [] c = 44  -> Enc(51, FALSE)   \* ','  0x33
    [] c = 46  -> Enc(52, FALSE)   \* '.'  0x34
    [] c = 47  -> Enc(53, FALSE)   \* '/'  0x35
    [] c = 33  -> Enc(2, TRUE)     \* '!'  0x02
    [] c = 64  -> Enc(3, TRUE)     \* '@'  0x03
    [] c = 35  -> Enc(4, TRUE)     \* '#'  0x04
    [] c = 36  -> Enc(5, TRUE)     \* '$'  0x05
    [] c = 37  -> Enc(6, TRUE)     \* '%'  0x06
    [] c = 94  -> Enc(7, TRUE)     \* '^'  0x07
    [] c = 38  -> Enc(8, TRUE)     \* '&'  0x08
    [] c = 42  -> Enc(9, TRUE)     \* '*'  0x09
    [] c = 40  -> Enc(10, TRUE)    \* '('  0x0A
    [] c = 41  -> Enc(11, TRUE)    \* ')'  0x0B
    [] c = 95  -> Enc(12, TRUE)    \* '_'  0x0C
    [] c = 43  -> Enc(13, TRUE)    \* '+'  0x0D
    [] c = 123 -> Enc(26, TRUE)    \* '{'  0x1A
    [] c = 125 -> Enc(27, TRUE)    \* '}'  0x1B
    [] c = 124 -> Enc(43, TRUE)    \* '|'  0x2B
    [] c = 58  -> Enc(39, TRUE)    \* ':'  0x27
    [] c = 34  -> Enc(40, TRUE)    \* '"'  0x28
    [] c = 126 -> Enc(41, TRUE)    \* '~'  0x29
    [] c = 60  -> Enc(51, TRUE)    \* '<'  0x33
    [] c = 62  -> Enc(52, TRUE)    \* '>'  0x34
    [] c = 63  -> Enc(53, TRUE)    \* '?'  0x35
    [] OTHER   -> Enc(0, FALSE)    \* Unknown

char_to_scancode(c) ==
  IF c >= 97 /\ c <= 122 THEN LowerLetter(c)
  ELSE IF c >= 65 /\ c <= 90 THEN UpperLetter(c)
  ELSE IF c >= 48 /\ c <= 57 THEN Digit(c)
  ELSE SpecialChar(c)

----------------------------------------------------------------------------
\* send_key

\* The InterceptionKeyStroke send_key builds.
send_key(code, down) ==
  [code |-> code, state |-> IF down THEN "DOWN" ELSE "UP", information |-> 0]

\* interception_send(context, keyboard, &stroke, 1): the stroke goes to the
\* driver; the call returns the number of strokes written (0 on failure) and
\* send_key drops that value.
interception_send(stroke) ==
  /\ sent' = Append(sent, stroke)
  /\ \E rc \in {0, 1} :
       failedAt' = IF failedAt = 0 /\ rc = 0 THEN Len(sent) + 1 ELSE failedAt

----------------------------------------------------------------------------
\* main and type_text

Init ==
  /\ pc = "main"
  /\ argc \in {1, 2}
  /\ text \in Texts
  /\ (argc = 1 => text = <<>>)
  /\ context = "none"
  /\ keyboard = "none"
  /\ i = 1
  /\ scancode = 0
  /\ need_shift = FALSE
  /\ sent = <<>>
  /\ failedAt = 0
  /\ warned = <<>>
  /\ typed = <<>>
  /\ reported = -1
  /\ exitCode = -1

\* if (argc < 2) { usage; return 1; }
CheckArgs ==
  /\ pc = "main"
  /\ IF argc < 2
       THEN pc' = "exit" /\ exitCode' = 1
       ELSE pc' = "create" /\ exitCode' = exitCode
  /\ UNCHANGED <<argc, text, context, keyboard, i, scancode, need_shift, sent,
                 failedAt, warned, typed, reported>>

\* context = interception_create_context(); if (!context) return 1;
CreateContext ==
  /\ pc = "create"
  /\ \E ok \in BOOLEAN :
       IF ok
         THEN context' = "open" /\ pc' = "wait" /\ exitCode' = exitCode
         ELSE context' = "null" /\ pc' = "exit" /\ exitCode' = 1
  /\ UNCHANGED <<argc, text, keyboard, i, scancode, need_shift, sent,
                 failedAt, warned, typed, reported>>

\* WaitKeyboard without the interception_is_invalid check.
WaitKeyboard_NoInvalidCheck ==
  /\ pc = "wait"
  /\ \E dev \in {"invalid", "valid"} : keyboard' = dev
  /\ pc' = "loop"
  /\ UNCHANGED <<argc, text, context, i, scancode, need_shift, sent, failedAt,
                 warned, typed, reported, exitCode>>

\* keyboard = interception_wait(context);
\* if (interception_is_invalid(keyboard)) { destroy; return 1; }
\* otherwise main goes on to call type_text.
WaitKeyboard ==
  /\ pc = "wait"
  /\ \E dev \in {"invalid", "valid"} :
       /\ keyboard' = dev
       /\ IF dev = "invalid"
            THEN context' = "destroyed" /\ pc' = "exit" /\ exitCode' = 1
            ELSE context' = context /\ pc' = "loop" /\ exitCode' = exitCode
  /\ UNCHANGED <<argc, text, i, scancode, need_shift, sent, failedAt, warned,
                 typed, reported>>

\* LoopHead with break in place of continue for an unknown character.
LoopHead_BreakOnUnknown ==
  /\ pc = "loop"
  /\ IF i > Len(text)
       THEN /\ pc' = "report"
            /\ UNCHANGED <<i, scancode, need_shift, warned>>
       ELSE LET e == char_to_scancode(text[i]) IN
            /\ scancode' = e.code
            /\ need_shift' = e.shift
            /\ IF e.code = 0
                 THEN /\ warned' = Append(warned, text[i])
                      /\ i' = i
                      /\ pc' = "report"
                 ELSE /\ pc' = IF e.shift THEN "shift_down" ELSE "key_down"
                      /\ UNCHANGED <<i, warned>>
  /\ UNCHANGED <<argc, text, context, keyboard, sent, failedAt, typed,
                 reported, exitCode>>

\* for (i < len): encode text[i]; unknown -> warn and continue.
LoopHead ==
  /\ pc = "loop"
  /\ IF i > Len(text)
       THEN /\ pc' = "report"
            /\ UNCHANGED <<i, scancode, need_shift, warned>>
       ELSE LET e == char_to_scancode(text[i]) IN
            /\ scancode' = e.code
            /\ need_shift' = e.shift
            /\ IF e.code = 0
                 THEN /\ warned' = Append(warned, text[i])
                      /\ i' = i + 1
                      /\ pc' = "loop"
                 ELSE /\ pc' = IF e.shift THEN "shift_down" ELSE "key_down"
                      /\ UNCHANGED <<i, warned>>
  /\ UNCHANGED <<argc, text, context, keyboard, sent, failedAt, typed,
                 reported, exitCode>>

\* send_key(context, keyboard, 0x2A, true);
PressShift ==
  /\ pc = "shift_down"
  /\ interception_send(send_key(LSHIFT, TRUE))
  /\ pc' = "key_down"
  /\ UNCHANGED <<argc, text, context, keyboard, i, scancode, need_shift,
                 warned, typed, reported, exitCode>>

\* send_key(context, keyboard, scancode, true);
PressKey ==
  /\ pc = "key_down"
  /\ interception_send(send_key(scancode, TRUE))
  /\ pc' = "key_up"
  /\ UNCHANGED <<argc, text, context, keyboard, i, scancode, need_shift,
                 warned, typed, reported, exitCode>>

\* ReleaseKey that never goes on to release shift.
ReleaseKey_SkipsShiftUp ==
  /\ pc = "key_up"
  /\ interception_send(send_key(scancode, FALSE))
  /\ pc' = "typed"
  /\ UNCHANGED <<argc, text, context, keyboard, i, scancode, need_shift,
                 warned, typed, reported, exitCode>>

\* send_key(context, keyboard, scancode, false);
ReleaseKey ==
  /\ pc = "key_up"
  /\ interception_send(send_key(scancode, FALSE))
  /\ pc' = IF need_shift THEN "shift_up" ELSE "typed"
  /\ UNCHANGED <<argc, text, context, keyboard, i, scancode, need_shift,
                 warned, typed, reported, exitCode>>

\* send_key(context, keyboard, 0x2A, false);
ReleaseShift ==
  /\ pc = "shift_up"
  /\ interception_send(send_key(LSHIFT, FALSE))
  /\ pc' = "typed"
  /\ UNCHANGED <<argc, text, context, keyboard, i, scancode, need_shift,
                 warned, typed, reported, exitCode>>

\* Sleep(delay_ms); printf("Typed: %c\n", text[i]); i++
EndOfChar ==
  /\ pc = "typed"
  /\ typed' = Append(typed, text[i])
  /\ i' = i + 1
  /\ pc' = "loop"
  /\ UNCHANGED <<argc, text, context, keyboard, scancode, need_shift, sent,
                 failedAt, warned, reported, exitCode>>

\* printf("Done! Typed %d characters", strlen(text)); destroy; return 0;
Report ==
  /\ pc = "report"
  /\ reported' = Len(text)
  /\ context' = "destroyed"
  /\ exitCode' = 0
  /\ pc' = "exit"
  /\ UNCHANGED <<argc, text, keyboard, i, scancode, need_shift, sent,
                 failedAt, warned, typed>>

Next ==
  \/ CheckArgs
  \/ CreateContext
  \/ WaitKeyboard
  \/ LoopHead
  \/ PressShift
  \/ PressKey
  \/ ReleaseKey
  \/ ReleaseShift
  \/ EndOfChar
  \/ Report

Spec == Init /\ [][Next]_vars

TypeOK ==
  /\ pc \in {"main", "create", "wait", "loop", "shift_down", "key_down",
             "key_up", "shift_up", "typed", "report", "exit"}
  /\ i \in 1 .. Len(text) + 1
  /\ exitCode \in {-1, 0, 1}
  /\ failedAt \in 0 .. Len(sent)

----------------------------------------------------------------------------
\* Vocabulary of the properties

EmitPcs == {"shift_down", "key_down", "key_up", "shift_up", "typed"}

\* A character has been encoded and scancode / need_shift hold its result.
HasEncoded == pc \in EmitPcs \/ (pc \in {"loop", "report", "exit"} /\ i > 1)

\* The character most recently passed to char_to_scancode.
LastChar == IF pc \in EmitPcs THEN text[i] ELSE text[i - 1]

\* type_text has run to its end.
TypingDone == pc = "report" \/ (pc = "exit" /\ reported # -1)

\* The character sets section 4.1 of the specification declares.
LowerSet == 97 .. 122
UpperSet == 65 .. 90
DigitSet == 48 .. 57
PlainPunct == {32, 10, 9, 45, 61, 91, 93, 92, 59, 39, 96, 44, 46, 47}

\* Shifted symbol -> base key of the US layout:
\* ! 1, @ 2, # 3, $ 4, % 5, ^ 6, & 7, * 8, ( 9, ) 0, _ -, + =, { [, } ],
\* | \, : ;, " ', ~ `, < ,, > ., ? /
BaseKey ==
  (33 :> 49) @@ (64 :> 50) @@ (35 :> 51) @@ (36 :> 52) @@ (37 :> 53) @@
  (94 :> 54) @@ (38 :> 55) @@ (42 :> 56) @@ (40 :> 57) @@ (41 :> 48) @@
  (95 :> 45) @@ (43 :> 61) @@ (123 :> 91) @@ (125 :> 93) @@ (124 :> 92) @@
  (58 :> 59) @@ (34 :> 39) @@ (126 :> 96) @@ (60 :> 44) @@ (62 :> 46) @@
  (63 :> 47)

ShiftedPunct == DOMAIN BaseKey

Declared == LowerSet \cup UpperSet \cup DigitSet \cup PlainPunct \cup ShiftedPunct

ShiftDown == [code |-> LSHIFT, state |-> "DOWN", information |-> 0]
ShiftUp == [code |-> LSHIFT, state |-> "UP", information |-> 0]
KeyDown(sc) == [code |-> sc, state |-> "DOWN", information |-> 0]
KeyUp(sc) == [code |-> sc, state |-> "UP", information |-> 0]

\* The expansion of one encoder result.
Expansion(e) ==
  IF e.shift THEN <<ShiftDown, KeyDown(e.code), KeyUp(e.code), ShiftUp>>
  ELSE <<KeyDown(e.code), KeyUp(e.code)>>

\* The expansion of one character: nothing when the encoder says Unknown.
ExpandChar(ch) ==
  IF char_to_scancode(ch).code = 0 THEN <<>> ELSE Expansion(char_to_scancode(ch))

RECURSIVE ExpandText(_)
ExpandText(s) ==
  IF s = <<>> THEN <<>> ELSE ExpandChar(Head(s)) \o ExpandText(Tail(s))

\* The expansion of a text with the characters outside Declared dropped.
RECURSIVE ExpandDeclared(_)
ExpandDeclared(s) ==
  IF s = <<>> THEN <<>>
  ELSE (IF Head(s) \in Declared THEN Expansion(char_to_scancode(Head(s))) ELSE <<>>)
       \o ExpandDeclared(Tail(s))

\* Events of the current character already sent when control is at p.
Progress(ch, p) ==
  LET sh == char_to_scancode(ch).shift IN
  CASE p = "shift_down" -> 0
    [] p = "key_down"   -> IF sh THEN 1 ELSE 0
    [] p = "key_up"     -> IF sh THEN 2 ELSE 1
    [] p = "shift_up"   -> 3
    [] p = "typed"      -> IF sh THEN 4 ELSE 2

IsDeclared(ch) == ch \in Declared
IsUndeclared(ch) == ch \notin Declared

----------------------------------------------------------------------------
\* Properties

\* C1: the strokes type_text has sent are, at every point, the expansions of
\* the characters already processed, in input order, followed by the part of
\* the current character's expansion sent so far; when type_text ends they
\* are exactly the concatenation of every character's expansion
\* ([shift-down, key-down, key-up, shift-up] or [key-down, key-up]).
C1_EventOrder ==
  /\ pc \in EmitPcs =>
       sent = ExpandText(SubSeq(text, 1, i - 1))
              \o SubSeq(ExpandChar(text[i]), 1, Progress(text[i], pc))
  /\ pc \in {"loop", "report"} => sent = ExpandText(SubSeq(text, 1, i - 1))
  /\ TypingDone => sent = ExpandText(text)

C1_Witness ==
  /\ pc = "exit"
  /\ Len(text) >= 2
  /\ char_to_scancode(text[1]).shift
  /\ char_to_scancode(text[2]).code # 0
  /\ ~char_to_scancode(text[2]).shift
  /\ Len(sent) = 6

\* C2: once a send has failed, no further stroke is sent and main does not
\* exit with code 0.
C2_AbortOnSendFailure ==
  failedAt # 0 => /\ Len(sent) = failedAt
                  /\ (pc = "exit" => exitCode # 0)

\* C3: the count printed when typing completes is the number of characters
\* that were typed (characters skipped as Unknown are not counted).
C3_ReportedCount ==
  reported # -1 => reported = Len(typed)

\* C4: a character outside the declared sets is encoded as Unknown, gets no
\* stroke, is warned about, and the characters after it are processed as
\* usual; the session still ends with exit code 0.
C4_UnknownSkipped ==
  /\ pc \in EmitPcs => text[i] \in Declared
  /\ (HasEncoded /\ LastChar \notin Declared) => scancode = 0
  /\ pc \in EmitPcs \cup {"loop", "report"} =>
       warned = SelectSeq(SubSeq(text, 1, i - 1), IsUndeclared)
  /\ pc \in {"loop", "report"} =>
       /\ sent = ExpandDeclared(SubSeq(text, 1, i - 1))
       /\ typed = SelectSeq(SubSeq(text, 1, i - 1), IsDeclared)
  /\ TypingDone =>
       /\ sent = ExpandDeclared(text)
       /\ warned = SelectSeq(text, IsUndeclared)
       /\ typed = SelectSeq(text, IsDeclared)
  /\ (pc = "exit" /\ reported # -1) => exitCode = 0

C4_Witness ==
  /\ pc = "exit"
  /\ Len(text) >= 2
  /\ text[1] \notin Declared
  /\ text[2] \in Declared
  /\ warned = <<text[1]>>
  /\ sent # <<>>

\* C5: strokes are sent only after the context was created and a valid
\* keyboard was returned; when either fails main sends nothing and returns
\* 1; when both succeed main returns 0.
C5_SinkUnavailable ==
  /\ sent # <<>> => (context \in {"open", "destroyed"} /\ keyboard = "valid")
  /\ (pc = "exit" /\ (context = "null" \/ keyboard = "invalid")) =>
       (sent = <<>> /\ exitCode = 1)
  /\ (pc = "exit" /\ context # "null" /\ keyboard = "valid") => exitCode = 0
  /\ (pc # "exit") => exitCode = -1

C5_Witness ==
  /\ pc = "exit"
  /\ keyboard = "invalid"
  /\ Len(text) >= 1
  /\ text[1] \in Declared

\* C6: a shifted symbol gets the scancode of its base key with need_shift
\* true, and the base key gets that scancode with need_shift false.
C6_ShiftedSymbols ==
  HasEncoded =>
    /\ LastChar \in ShiftedPunct =>
         /\ need_shift
         /\ scancode # 0
         /\ scancode = char_to_scancode(BaseKey[LastChar]).code
         /\ ~char_to_scancode(BaseKey[LastChar]).shift
    /\ \A s \in ShiftedPunct :
         BaseKey[s] = LastChar =>
           /\ ~need_shift
           /\ scancode # 0
           /\ char_to_scancode(s) = [code |-> scancode, shift |-> TRUE]

C6_Witness ==
  /\ pc = "shift_up"
  /\ text[i] = 41
  /\ scancode = 11

C8_Digits ==
  HasEncoded =>
    /\ LastChar \in 49 .. 57 =>
         /\ ~need_shift
         /\ scancode # 0
         /\ LastChar > 49 => scancode = char_to_scancode(LastChar - 1).code + 1
         /\ char_to_scancode(48).code # scancode
    /\ LastChar = 48 =>
         /\ scancode # 0
         /\ \A d \in 49 .. 57 : char_to_scancode(d).code # scancode

C8_Witness ==
  /\ pc = "exit"
  /\ text = <<48>>
  /\ scancode = 11
  /\ Len(sent) = 2

\* Number of elements of s that equal x.
RECURSIVE Count(_, _)
Count(s, x) ==
  IF s = <<>> THEN 0 ELSE (IF Head(s) = x THEN 1 ELSE 0) + Count(Tail(s), x)

\* C9: no supported character has scancode 0x2A; a text of characters that
\* need no shift sends no stroke with scancode 0x2A; and no shift-down is
\* sent while an earlier shift-down has not been followed by its shift-up.
C9_ShiftOnlyAsBracket ==
  /\ (HasEncoded /\ scancode # 0) => scancode # LSHIFT
  /\ (\A k \in 1 .. Len(text) : ~char_to_scancode(text[k]).shift) =>
       \A k \in 1 .. Len(sent) : sent[k].code # LSHIFT
  /\ \A k \in 1 .. Len(sent) :
       sent[k] = ShiftDown =>
         Count(SubSeq(sent, 1, k - 1), ShiftDown) = Count(SubSeq(sent, 1, k - 1), ShiftUp)

\* C10: two distinct supported characters that need no shift never get the
\* same scancode, and two distinct supported characters never get the same
\* (scancode, need_shift) pair.
C10_Injective ==
  (HasEncoded /\ scancode # 0) =>
    \A d \in Char \ {LastChar} :
      char_to_scancode(d).code # 0 =>
        /\ (~need_shift /\ ~char_to_scancode(d).shift) => char_to_scancode(d).code # scancode
        /\ char_to_scancode(d) # [code |-> scancode, shift |-> need_shift]

====
